---- MODULE Spec2Model ----
(***************************************************************************)
(* A model of the MongoDB-backed Catalog of bluesky_catalog                *)
(* (mongo_normalized.py): the run_start collection, the query translation  *)
(* registry, the access policies, the Catalog constructors (search,        *)
(* authenticated_as, filter_results), its read operations and the chunked  *)
(* pagination generator Catalog._chunked_find, the Run and event stream    *)
(* objects it builds lazily, and the table of block fetch tasks of a       *)
(* chunked remote array.                                                   *)
(***************************************************************************)
EXTENDS Integers, Sequences, FiniteSets, TLC

(* ---------------------------- bounds ----------------------------------- *)
\* documents in the run_start collection when a behaviour starts
MaxDocs == 4
\* documents inserted while a behaviour runs
MaxInserts == 2
\* CURSOR_LIMIT is 100 in the source (line 282); it is drawn from
\* 1..MaxCursorLimit so that passes of several rounds occur on small stores
MaxCursorLimit == 3
\* Catalog objects alive in one behaviour
MaxCatalogs == 3
\* largest positional start of a slice
MaxStart == 2
\* largest positional stop of a slice
MaxStop == 4
MaxIndex == 5
MaxEvents == 2
MaxSeq == 2
MaxAccesses == 2
MaxAxes == 2
MaxChunksPerAxis == 2
MaxBlocks == 4
MaxDataDescriptors == 2

(* ---------------------------- values ----------------------------------- *)
None == "None"
\* SpecialUsers.admin
admin == "admin"
Identities == {"alice", "bob", "carol", "dave", admin}
\* the uid of the run whose document has _id = i
Uids == <<"A", "B", "C", "D", "E", "F", "G", "H">>
Plans == {"x", "y"}

VARIABLES
    run_start,      \* the run_start collection: a set of documents
    inserted,       \* number of documents inserted since Init
    cursor_limit,   \* CURSOR_LIMIT of _chunked_find
    catalogs,       \* the Catalog objects constructed so far
    gen,            \* the frame of one _chunked_find generator
    out,            \* the items the generator has yielded, in order
    out_ids,        \* the _id each yielded item carried in the store
    before,         \* the collection when the generator was created
    changed,        \* the collection changed after the generator was created
    last,           \* the outcome of the most recent non-generator call
    mq,             \* the most recent AccessPolicy.modify_queries call
    run_stop,       \* the run_stop collection: the uids that have a stop document
    event_descriptor, \* the event_descriptor collection
    event,          \* the event collection
    run,            \* the BlueskyRun the caller holds, with its LazyMap
    chunks,         \* structure.chunks: per axis, the lengths of its blocks
    tasks,          \* dask_tasks: block index tuple -> fetch task
    array,          \* the outcome of _build_dataset: what it raised or returned
    instances       \* the client object constructed and the one the last
                    \* new_variation returned

storeVars == <<run_start, inserted>>
genVars == <<gen, out, out_ids, before, changed>>
streamVars == <<run_stop, event_descriptor, event>>
blockVars == <<chunks, tasks, array>>
vars == <<run_start, inserted, cursor_limit, catalogs, gen, out, out_ids,
          before, changed, last, mq, run_stop, event_descriptor, event, run,
          chunks, tasks, array, instances>>

(* ----------------------- the document store ---------------------------- *)
\* a run_start document
Doc(id, plan) == [_id |-> id, uid |-> Uids[id], plan |-> plan]

FieldOf(doc, field) ==
    IF field = "uid" THEN doc.uid
    ELSE IF field = "plan" THEN doc.plan
    ELSE None

\* A predicate is [op, field, vals]:
\*   {field: v}            op = "eq",    vals = {v}
\*   {field: {"$in": S}}   op = "$in",   vals = S
\*   {"$text": {"$search": t}}  op = "$text", vals = {t}
\*   {"$uid": u}           op = "$uid",  vals = {u}
Pred(op, field, vals) == [op |-> op, field |-> field, vals |-> vals]

\* the store rejects a top-level operator it does not know
ValidPred(p) == p.op \in {"eq", "$in", "$text"}

MatchPred(p, doc) ==
    CASE p.op = "eq" -> FieldOf(doc, p.field) \in p.vals
      [] p.op = "$in" -> FieldOf(doc, p.field) \in p.vals
      [] p.op = "$text" -> doc.plan \in p.vals
      [] OTHER -> FALSE

\* A query is the dict handed to the store: the "$and" key (absent in {})
\* and the "_id": {"$gt": gt} key that _chunked_find adds.
\* The store rejects an empty "$and" list, and a filter that holds more
\* than one $text expression.
ValidQuery(q) ==
    /\ q.has_and => Len(q.and) > 0
    /\ \A k \in 1..Len(q.and) : ValidPred(q.and[k])
    /\ Cardinality({k \in 1..Len(q.and) : q.and[k].op = "$text"}) <= 1

Matches(q, doc) ==
    /\ \A k \in 1..Len(q.and) : MatchPred(q.and[k], doc)
    /\ q.has_id => doc._id > q.gt

Matching(coll, q) == {d \in coll : Matches(q, d)}

MinId(S) == CHOOSE d \in S : \A e \in S : d._id <= e._id

RECURSIVE SortByIdDesc(_)
SortByIdDesc(S) ==
    IF S = {} THEN <<>>
    ELSE LET d == MinId(S) IN Append(SortByIdDesc(S \ {d}), d)

\* cursor.sort([("_id", 1)])
RECURSIVE SortById(_)
SortById(S) ==
    IF S = {} THEN <<>>
    ELSE LET d == MinId(S) IN <<d>> \o SortById(S \ {d})

\* cursor.skip(n)
Skip(s, n) == IF n >= Len(s) THEN <<>> ELSE SubSeq(s, n + 1, Len(s))

\* cursor.limit(n): 0 means no limit, a negative n limits to -n documents
Limit(s, n) ==
    LET m == IF n < 0 THEN 0 - n ELSE n IN
    IF n = 0 \/ m >= Len(s) THEN s ELSE SubSeq(s, 1, m)

\* collection.find(query).sort([("_id", 1)]).skip(skip).limit(limit), exhausted
Find(coll, q, skip, limit) == Limit(Skip(SortById(Matching(coll, q)), skip), limit)

(* -------------------------- _chunked_find ------------------------------ *)
\* item.pop("_id")
PopId(doc) == [uid |-> doc.uid, plan |-> doc.plan]

initial_limit(has_limit, limit) ==
    IF has_limit /\ limit < cursor_limit THEN limit ELSE cursor_limit

this_limit(has_limit, limit, tally) ==
    IF has_limit
    THEN IF limit - tally < cursor_limit THEN limit - tally ELSE cursor_limit
    ELSE cursor_limit

NextQueryGte(q, last_object_id) ==
    [q EXCEPT !.has_id = TRUE, !.gt = last_object_id - 1]

\* query["_id"] = {"$gt": last_object_id}
NextQuery(q, last_object_id) ==
    [q EXCEPT !.has_id = TRUE, !.gt = last_object_id]

IdleGen ==
    [pc |-> "idle", cat |-> 0, op |-> None,
     query |-> [has_and |-> FALSE, and |-> <<>>, has_id |-> FALSE, gt |-> 0],
     arg_skip |-> 0, skip |-> 0, cur_limit |-> 0,
     has_limit |-> FALSE, limit |-> 0,
     tally |-> 0, items |-> <<>>, i |-> 0, round |-> 0, fetched |-> 0]

\* the generator object right after the call: no line of the body has run
NewGen(c, op, query, skip, has_limit, limit) ==
    [IdleGen EXCEPT !.pc = "start", !.cat = c, !.op = op, !.query = query,
                    !.arg_skip = skip, !.has_limit = has_limit, !.limit = limit]

\* items.extend(cursor) for the cursor find(query).sort.skip(skip).limit(lim),
\* then lines 303-307; the generator stops at its first yield or ends
Exhaust(g, skip, lim) ==
    IF ~ValidQuery(g.query)
    THEN [g EXCEPT !.pc = "error", !.items = <<>>, !.i = 0]
    ELSE LET items == Find(run_start, g.query, skip, lim) IN
         IF items = <<>>
         THEN [g EXCEPT !.pc = "done", !.items = <<>>, !.i = 0,
                        !.round = @ + 1, !.skip = skip, !.cur_limit = lim]
         ELSE [g EXCEPT !.pc = "yield", !.items = items, !.i = 1,
                        !.query = NextQuery(g.query, items[Len(items)]._id),
                        !.round = @ + 1, !.skip = skip, !.cur_limit = lim,
                        !.fetched = @ + Len(items)]

ResumedSkipEveryRound(g) ==
    IF g.pc = "start"
    THEN Exhaust(g, g.arg_skip, initial_limit(g.has_limit, g.limit))
    ELSE IF g.i < Len(g.items)
    THEN [g EXCEPT !.i = @ + 1]
    ELSE LET tally == g.tally + Len(g.items) IN
         IF g.has_limit /\ tally = g.limit
         THEN [g EXCEPT !.pc = "done", !.tally = tally]
         ELSE Exhaust([g EXCEPT !.tally = tally], g.arg_skip,
                      this_limit(g.has_limit, g.limit, tally))

\* one next() on the generator: run from where it is suspended to the next
\* yield, to the end of the generator, or to the exception the store raises
Resumed(g) ==
    IF g.pc = "start"
    THEN Exhaust(g, g.arg_skip, initial_limit(g.has_limit, g.limit))
    ELSE IF g.i < Len(g.items)
    THEN [g EXCEPT !.i = @ + 1]
    ELSE LET tally == g.tally + Len(g.items) IN
         IF g.has_limit /\ tally = g.limit
         THEN [g EXCEPT !.pc = "done", !.tally = tally]
         ELSE Exhaust([g EXCEPT !.tally = tally], 0,
                      this_limit(g.has_limit, g.limit, tally))

(* ------------------------------ Catalog -------------------------------- *)
RawMongo(start) ==
    [tag |-> "RawMongo", op |-> start.op, field |-> start.field,
     vals |-> start.vals]
FullText(text) ==
    [tag |-> "FullText", op |-> "", field |-> "text", vals |-> {text}]
KeyLookup(uid) ==
    [tag |-> "KeyLookup", op |-> "", field |-> "uid", vals |-> {uid}]

raw_mongo(query) == Pred(query.op, query.field, query.vals)
full_text_search(query) == raw_mongo(RawMongo(Pred("$text", "$search", query.vals)))
key_lookup(query) == raw_mongo(RawMongo(Pred("$uid", "", query.vals)))

\* Catalog.query_registry(q) with the three registered translators
query_registry(q) ==
    CASE q.tag = "FullText" -> full_text_search(q)
      [] q.tag = "KeyLookup" -> key_lookup(q)
      [] q.tag = "RawMongo" -> raw_mongo(q)

\* Catalog.__init__
Catalog(queries, access_policy, authenticated_identity) ==
    [metadatastore_db |-> "mds", asset_registry_db |-> "assets",
     queries |-> queries,
     mongo_queries |-> [k \in 1..Len(queries) |-> query_registry(queries[k])],
     access_policy |-> access_policy,
     identity |-> authenticated_identity]

\* Catalog._mongo_query(*queries)
mongo_query(c, queries) ==
    LET combined == c.mongo_queries \o queries IN
    IF combined # <<>>
    THEN [has_and |-> TRUE, and |-> combined, has_id |-> FALSE, gt |-> 0]
    ELSE [has_and |-> FALSE, and |-> <<>>, has_id |-> FALSE, gt |-> 0]

\* collection.count_documents(query)
count_documents(coll, q) == Cardinality(Matching(coll, q))

\* collection.find_one(query): the first matching document, or none
find_one(coll, q) == Limit(SortById(Matching(coll, q)), 1)

search_replacing(c, query) == Catalog(<<query>>, c.access_policy, c.identity)

\* Catalog.search(query): the Catalog it returns
search(c, query) == Catalog(Append(c.queries, query), c.access_policy, c.identity)

authenticated_as_given(c, identity) == Catalog(c.queries, c.access_policy, identity)

\* Catalog.authenticated_as(identity): the Catalog its else branch returns
authenticated_as(c, identity) == Catalog(c.queries, c.access_policy, c.identity)

(* --------------------------- access policies --------------------------- *)
\* SimpleAccessPolicy.ALL
ALL == [all |-> TRUE, uids |-> {}]
AccessList(uids) == [all |-> FALSE, uids |-> uids]
\* SimpleAccessPolicy({"alice": ["A", "B"], "bob": ["B"], "carol": ALL})
access_lists ==
    [id \in {"alice", "bob", "carol"} |->
        IF id = "alice" THEN AccessList({"A", "B"})
        ELSE IF id = "bob" THEN AccessList({"B"})
        ELSE ALL]
\* self.access_lists.get(authenticated_identity, [])
Allowed(identity) ==
    IF identity \in DOMAIN access_lists THEN access_lists[identity]
    ELSE AccessList({})

\* DummyAccessPolicy.modify_queries: the list returned, and the caller's
\* list as the call leaves it
dummy_modify_queries(queries, identity) ==
    [result |-> queries, arg_after |-> queries]

simple_modify_queries_in_place(queries, identity) ==
    LET allowed == Allowed(identity)
        modified == Append(queries, RawMongo(Pred("$in", "uid", allowed.uids)))
    IN
    IF identity = admin \/ allowed.all
    THEN [result |-> queries, arg_after |-> queries]
    ELSE [result |-> modified, arg_after |-> modified]

\* SimpleAccessPolicy.modify_queries: the list returned, and the caller's
\* list as the call leaves it
simple_modify_queries(queries, identity) ==
    LET allowed == Allowed(identity) IN
    IF identity = admin \/ allowed.all
    THEN [result |-> queries, arg_after |-> queries]
    ELSE [result |-> Append(queries, RawMongo(Pred("$in", "uid", allowed.uids))),
          arg_after |-> queries]

modify_queries(policy, queries, identity) ==
    IF policy = "Simple" THEN simple_modify_queries(queries, identity)
    ELSE dummy_modify_queries(queries, identity)

\* DummyAccessPolicy.filter_results and SimpleAccessPolicy.filter_results:
\* the constructor call passes no queries
filter_results(c, identity) == Catalog(<<>>, c.access_policy, identity)

(* ------------------------ runs and event streams ----------------------- *)
Descriptor(uid, run_start_uid, name) ==
    [uid |-> uid, run_start |-> run_start_uid, name |-> name]
EventDoc(descriptor, seq_num) == [descriptor |-> descriptor, seq_num |-> seq_num]
StopDoc(run_start_uid) == [run_start |-> run_start_uid]

\* the names of the store queries a call issues behind a Run
BuildRunQueries == {"run_stop.find_one", "event_descriptor.distinct"}
BuildStreamQueries == {"event_descriptor.find", "event.aggregate"}

\* Catalog._get_stop_doc(run_start_uid): <<>> stands for None
get_stop_doc(stops, run_start_uid) ==
    LET found == {d \in stops : d.run_start = run_start_uid} IN
    IF found = {} THEN <<>> ELSE <<CHOOSE d \in found : TRUE>>

MaxOf(S) == CHOOSE m \in S : \A x \in S : x <= m

\* event_collection.aggregate([{"$match": {"descriptor": {"$in": uids}}},
\*   {"$group": {"_id": "descriptor", "highest_seq_num": {"$max": "$seq_num"}}}]):
\* the group key is a constant, so there is one group when an event matches
\* and no group at all when none does
aggregate(events, uids) ==
    LET matched == {e \in events : e.descriptor \in uids} IN
    IF matched = {} THEN <<>>
    ELSE <<[_id |-> "descriptor",
            highest_seq_num |-> MaxOf({e.seq_num : e \in matched})]>>

\* BlueskyEventStream.construct: cutoff_seq_num is a parameter that the body
\* never reads
construct(run_start_uid, cutoff_seq_num, stream_name, event_descriptors) ==
    IF event_descriptors = {}
    THEN [status |-> "ValueError: At least one Event Descriptor document is required.",
          stream |-> <<>>]
    ELSE [status |-> "ok",
          stream |-> <<[mapping |-> {"data"},
                        metadata |-> [descriptors |-> event_descriptors,
                                      stream_name |-> stream_name]]>>]

\* Catalog._build_event_stream(run_start_uid, stream_name, is_complete)
build_event_stream(descs, events, run_start_uid, stream_name) ==
    LET event_descriptors ==
            {d \in descs : d.run_start = run_start_uid /\ d.name = stream_name}
        event_descriptor_uids == {d.uid : d \in event_descriptors}
        result == aggregate(events, event_descriptor_uids)
    IN
    IF Len(result) # 1
    THEN [status |-> "ValueError: not enough values to unpack",
          stream |-> <<>>, cutoff_seq_num |-> 0]
    ELSE LET cutoff_seq_num == result[1].highest_seq_num
             r == construct(run_start_uid, cutoff_seq_num, stream_name,
                            event_descriptors)
         IN [status |-> r.status, stream |-> r.stream,
             cutoff_seq_num |-> cutoff_seq_num]

\* no Run is held
NoRun ==
    [held |-> FALSE, start |-> <<>>, stop |-> <<>>, is_complete |-> FALSE,
     mapping |-> [n \in {} |-> <<>>],
     accesses |-> [n \in {} |-> 0], constructions |-> [n \in {} |-> 0]]

\* Catalog._build_run(run_start_doc): mapping is the LazyMap, <<>> for a
\* stream that has not been evaluated; accesses and constructions count, per
\* stream name, the accesses made and the EventStreams constructed since
build_run(stops, descs, run_start_doc) ==
    LET uid == run_start_doc.uid
        run_stop_doc == get_stop_doc(stops, uid)
        stream_names == {d.name : d \in {e \in descs : e.run_start = uid}}
    IN [held |-> TRUE, start |-> <<run_start_doc>>, stop |-> run_stop_doc,
        is_complete |-> (run_stop_doc # <<>>),
        mapping |-> [n \in stream_names |-> <<>>],
        accesses |-> [n \in stream_names |-> 0],
        constructions |-> [n \in stream_names |-> 0]]

\* LazyMap.__getitem__(key) (catalog_server.utils, source not at hand): the
\* stored value if the key has been evaluated, else the value of its thunk,
\* which is stored when the thunk returns and not when it raises
lazy_getitem(r, key, built) ==
    IF r.mapping[key] # <<>>
    THEN [r EXCEPT !.accesses[key] = @ + 1]
    ELSE [r EXCEPT !.accesses[key] = @ + 1,
                   !.mapping[key] = built.stream,
                   !.constructions[key] = @ + (IF built.status = "ok" THEN 1 ELSE 0)]

(* --------------------- the blocks of a remote array -------------------- *)
\* itertools.product(*num_blocks) for num_blocks = (range(len(n)) for n in
\* chunks): the block index tuples, 0-based, in the order product yields
\* them, the last axis varying fastest
RECURSIVE product(_)
product(cs) ==
    IF cs = <<>> THEN << <<>> >>
    ELSE LET rest == product(Tail(cs))
             n == Len(Head(cs))
         IN [k \in 1..(n * Len(rest)) |->
                <<(k - 1) \div Len(rest)>> \o rest[((k - 1) % Len(rest)) + 1]]

\* tuple(chunks[dim][i] for dim, i in enumerate(block))
block_shape(cs, block) ==
    [dim \in 1..Len(block) |-> cs[dim][block[dim] + 1]]

\* the dict dask_tasks; its key (name,) + block is written block, name
\* being the same in every key
dask_tasks(cs) ==
    LET blocks == product(cs) IN
    [block \in {blocks[k] : k \in 1..Len(blocks)} |->
        [fn |-> "_get_block", block |-> block, dtype |-> "dtype",
         shape |-> block_shape(cs, block)]]

\* the part of an Event Descriptor document _build_dataset reads
DataDescriptor(data_keys) == [data_keys |-> data_keys]

\* the names of the builtins module, where a lookup ends
Builtins ==
    {"ArithmeticError", "AssertionError", "AttributeError", "BaseException",
     "BaseExceptionGroup", "BlockingIOError", "BrokenPipeError",
     "BufferError", "BytesWarning", "ChildProcessError",
     "ConnectionAbortedError", "ConnectionError", "ConnectionRefusedError",
     "ConnectionResetError", "DeprecationWarning", "EOFError", "Ellipsis",
     "EncodingWarning", "EnvironmentError", "Exception", "ExceptionGroup",
     "False", "FileExistsError", "FileNotFoundError", "FloatingPointError",
     "FutureWarning", "GeneratorExit", "IOError", "ImportError",
     "ImportWarning", "IndentationError", "IndexError", "InterruptedError",
     "IsADirectoryError", "KeyError", "KeyboardInterrupt", "LookupError",
     "MemoryError", "ModuleNotFoundError", "NameError", "None",
     "NotADirectoryError", "NotImplemented", "NotImplementedError",
     "OSError", "OverflowError", "PendingDeprecationWarning",
     "PermissionError", "ProcessLookupError", "RecursionError",
     "ReferenceError", "ResourceWarning", "RuntimeError", "RuntimeWarning",
     "StopAsyncIteration", "StopIteration", "SyntaxError", "SyntaxWarning",
     "SystemError", "SystemExit", "TabError", "TimeoutError", "True",
     "TypeError", "UnboundLocalError", "UnicodeDecodeError",
     "UnicodeEncodeError", "UnicodeError", "UnicodeTranslateError",
     "UnicodeWarning", "UserWarning", "ValueError", "Warning",
     "ZeroDivisionError", "__build_class__", "__debug__", "__doc__",
     "__import__", "__loader__", "__name__", "__package__", "__spec__",
     "abs", "aiter", "all", "anext", "any", "ascii", "bin", "bool",
     "breakpoint", "bytearray", "bytes", "callable", "chr", "classmethod",
     "compile", "complex", "copyright", "credits", "delattr", "dict", "dir",
     "divmod", "enumerate", "eval", "exec", "exit", "filter", "float",
     "format", "frozenset", "getattr", "globals", "hasattr", "hash", "help",
     "hex", "id", "input", "int", "isinstance", "issubclass", "iter", "len",
     "license", "list", "locals", "map", "max", "memoryview", "min", "next",
     "object", "oct", "open", "ord", "pow", "print", "property", "quit",
     "range", "repr", "reversed", "round", "set", "setattr", "slice",
     "sorted", "staticmethod", "str", "sum", "super", "tuple", "type",
     "vars", "zip"}
\* the names the module binds: its imports, classes and functions, those
\* defined after _build_dataset included, as they are bound when it is called
ModuleNames ==
    {"collections", "dataclass", "functools", "dask", "pymongo",
     "QueryTranslationRegistry", "register", "FullText", "KeyLookup",
     "authenticated", "catalog_repr", "DictView", "IndexCallable",
     "slice_to_interval", "SpecialUsers", "CatalogInMemory", "DatasetSource",
     "LazyMap", "BlueskyRun", "BlueskyEventStream", "_build_dataset",
     "Catalog", "RawMongo", "raw_mongo", "_get_database", "full_text_search",
     "key_lookup", "DummyAccessPolicy", "SimpleAccessPolicy",
     "__name__", "__doc__", "__package__", "__loader__", "__spec__",
     "__file__", "__builtins__", "__cached__"}
\* the parameters of _build_dataset
Parameters ==
    {"event_descriptors", "event_collection", "datum_collection",
     "resource_collection", "sub_dict"}
\* the names the body assigns
AssignedNames ==
    {"descriptor", "_", "key", "value", "name", "chunks", "num_blocks",
     "dask_tasks", "block", "dim", "i", "n"}
\* the names bound where the body of _build_dataset runs
BoundNames == Builtins \cup ModuleNames \cup Parameters \cup AssignedNames
\* the names the body reads in the pass for a data key, in the order of
\* their first read, when structure.chunks is cs: range, len and n are read
\* once per axis as product(*num_blocks) draws the generator num_blocks; the
\* entry of dask_tasks is evaluated once per block, and its shape reads
\* chunks, dim and i once per axis
NamesRead(cs) ==
    <<"self", "map", "repr", "sorted", "structure", "chunks", "itertools",
      "num_blocks">>
    \o (IF Len(cs) > 0 THEN <<"range", "len", "n">> ELSE <<>>)
    \o (IF Len(product(cs)) > 0
        THEN <<"name", "block", "dtype", "tuple", "enumerate">>
             \o (IF Len(cs) > 0 THEN <<"dim", "i">> ELSE <<>>)
        ELSE <<>>)
    \o <<"dask", "dask_tasks", "name", "chunks", "dtype", "shape">>
\* the first name of names that is bound nowhere, if there is one
FirstUnbound(names) ==
    LET unbound == {k \in 1..Len(names) : names[k] \notin BoundNames} IN
    IF unbound = {} THEN <<>>
    ELSE <<names[CHOOSE k \in unbound : \A m \in unbound : k <= m]>>

NoTasks == [b \in {} |-> <<>>]

\* _build_dataset(event_descriptors=..., ...): cs stands for structure.chunks.
\* descriptor, *_ = event_descriptors needs one element; the loop over
\* descriptor["data_keys"] returns in its first pass, and the function
\* returns None when there is no pass; the first name read in the pass
\* that is bound nowhere raises NameError
build_dataset(event_descriptors, cs) ==
    IF event_descriptors = <<>>
    THEN [status |-> "ValueError", value |-> None, tasks |-> NoTasks]
    ELSE LET descriptor == event_descriptors[1] IN
         IF descriptor.data_keys = {}
         THEN [status |-> "ok", value |-> None, tasks |-> NoTasks]
         ELSE IF FirstUnbound(NamesRead(cs)) # <<>>
         THEN [status |-> "NameError", value |-> None, tasks |-> NoTasks]
         ELSE [status |-> "ok", value |-> "dask.array.Array",
               tasks |-> dask_tasks(cs)]

(* ------------------------- tiled.client.base --------------------------- *)
NEEDS_INITIALIZATION == "NEEDS_INITIALIZATION"
\* the values a caller passes for path: a list (or tuple) of segments, one
\* str, or None
ListPath(segments) == [kind |-> "list", segments |-> segments]
StrPath == [kind |-> "str", segments |-> <<>>]
NonePath == [kind |-> "None", segments |-> <<>>]
\* the values a caller passes for params: a dict with the keys keys, or None
DictParams(keys) == [kind |-> "dict", keys |-> keys]
NoneParams == [kind |-> "None", keys |-> {}]

\* tuple(path or []): None and the empty list are falsy and give ()
path_or_empty(path) ==
    IF path.kind = "None" \/ path.segments = <<>> THEN <<>> ELSE path.segments

\* params or {}: None and the empty dict are falsy and give {}
params_or_empty(params) ==
    IF params.kind = "None" \/ params.keys = {} THEN {} ELSE params.keys

\* the keyword arguments kw without the names in names
Without(kw, names) == [name \in DOMAIN kw \ names |-> kw[name]]

\* BaseClient.__init__(self, client, *, item, path, metadata, params) called
\* with the positional arguments args and the keyword arguments kw: Python
\* binds the parameters, then the body runs
BaseClient_init(type, args, kw) ==
    IF Len(args) > 1 \/ (Len(args) = 1 /\ "client" \in DOMAIN kw)
    THEN [status |-> "TypeError", obj |-> <<>>]
    ELSE IF Len(args) = 0 /\ "client" \notin DOMAIN kw
    THEN [status |-> "TypeError", obj |-> <<>>]
    ELSE IF DOMAIN kw \ {"client"} # {"item", "path", "metadata", "params"}
    THEN [status |-> "TypeError", obj |-> <<>>]
    ELSE IF kw["path"].kind = "str"
    THEN [status |-> "ValueError", obj |-> <<>>]
    ELSE [status |-> "ok",
          obj |-> <<[type |-> type,
                     client |-> IF Len(args) = 1 THEN args[1] ELSE kw["client"],
                     path |-> path_or_empty(kw["path"]),
                     item |-> IF kw["item"] = NEEDS_INITIALIZATION
                              THEN None ELSE kw["item"],
                     metadata |-> IF kw["item"] = NEEDS_INITIALIZATION
                                  THEN {} ELSE kw["metadata"],
                     cached_len |-> None,
                     params |-> params_or_empty(kw["params"])]>>]

\* BaseStructureClient.__init__(self, client, *, structure=None, **kwargs)
BaseStructureClient_init(type, args, kw) ==
    IF Len(args) > 1 \/ (Len(args) = 1 /\ "client" \in DOMAIN kw)
    THEN [status |-> "TypeError", obj |-> <<>>]
    ELSE IF Len(args) = 0 /\ "client" \notin DOMAIN kw
    THEN [status |-> "TypeError", obj |-> <<>>]
    ELSE LET client == IF Len(args) = 1 THEN args[1] ELSE kw["client"]
             structure == IF "structure" \in DOMAIN kw THEN kw["structure"]
                          ELSE None
             r == BaseClient_init(type, <<client>>,
                                  Without(kw, {"client", "structure"}))
         IN IF r.status # "ok" THEN r
            ELSE [status |-> "ok",
                  obj |-> <<[type |-> type, client |-> r.obj[1].client,
                             path |-> r.obj[1].path, item |-> r.obj[1].item,
                             metadata |-> r.obj[1].metadata,
                             cached_len |-> r.obj[1].cached_len,
                             params |-> r.obj[1].params,
                             structure |-> structure]>>]

\* type(self)(*args, **kw)
new_instance(type, args, kw) ==
    IF type = "BaseStructureClient" THEN BaseStructureClient_init(type, args, kw)
    ELSE BaseClient_init(type, args, kw)

\* BaseClient.new_variation(self, metadata=UNCHANGED, path=UNCHANGED,
\* params=UNCHANGED, **kwargs): given holds the arguments that are not
\* UNCHANGED; self._path is a tuple of segments and self._params a dict. The
\* call type(self)(item=self._item, metadata=..., path=..., params=...,
\* **kwargs) names item itself, so that an item in kwargs is a second value
\* for the same keyword
BaseClient_new_variation(self, given) ==
    LET kwargs == Without(given, {"metadata", "path", "params"})
        kw == [name \in {"item", "metadata", "path", "params"} \cup DOMAIN kwargs |->
                 CASE name = "item" -> self.item
                   [] name = "metadata" ->
                        IF "metadata" \in DOMAIN given THEN given["metadata"]
                        ELSE self.metadata
                   [] name = "path" ->
                        IF "path" \in DOMAIN given THEN given["path"]
                        ELSE ListPath(self.path)
                   [] name = "params" ->
                        IF "params" \in DOMAIN given THEN given["params"]
                        ELSE DictParams(self.params)
                   [] OTHER -> kwargs[name]]
    IN IF "item" \in DOMAIN kwargs
       THEN [status |-> "TypeError", obj |-> <<>>]
       ELSE new_instance(self.type, <<>>, kw)

\* BaseStructureClient.new_variation(self, structure=UNCHANGED, **kwargs)
BaseStructureClient_new_variation(self, given) ==
    LET structure == IF "structure" \in DOMAIN given THEN given["structure"]
                     ELSE self.structure
        kwargs == Without(given, {"structure"})
    IN BaseClient_new_variation(self,
          [name \in {"structure"} \cup DOMAIN kwargs |->
              IF name = "structure" THEN structure ELSE kwargs[name]])

\* self.new_variation(**given)
new_variation(self, given) ==
    IF self.type = "BaseStructureClient"
    THEN BaseStructureClient_new_variation(self, given)
    ELSE BaseClient_new_variation(self, given)

(* ------------------------------ actions -------------------------------- *)
NoCall == [op |-> None, cat |-> 0, key |-> None, status |-> None, n |-> 0,
           used |-> <<>>, issued |-> {}]
NoMq == [policy |-> None, identity |-> None, arg |-> <<>>, arg_after |-> <<>>,
         result |-> <<>>]

Call(op, c, key, status, n, used) ==
    [op |-> op, cat |-> c, key |-> key, status |-> status, n |-> n,
     used |-> used, issued |-> {}]

\* the call, with the queries it issued on the collections behind a Run
Issuing(call, issued) == [call EXCEPT !.issued = issued]

\* the @authenticated decorator (catalog_server.utils, source not at hand):
\* a Catalog with an access policy serves a decorated method only once an
\* identity is bound; it does not alter the query
authenticated(c) == ~(c.access_policy # None /\ c.identity = None)

\* Catalog.__iter__(): the generator over _chunked_find(run_start, _mongo_query())
Iter(c) ==
    /\ gen.pc = "idle"
    /\ authenticated(catalogs[c])
    /\ gen' = NewGen(c, "iter", mongo_query(catalogs[c], <<>>), 0, FALSE, 0)
    /\ out' = <<>>
    /\ out_ids' = <<>>
    /\ before' = run_start
    /\ changed' = FALSE
    /\ UNCHANGED <<storeVars, cursor_limit, instances, streamVars, run, blockVars, catalogs, last, mq>>

\* Catalog._keys_slice(start, stop); start = -1 and stop = -1 stand for None
KeysSlice(c, start, stop) ==
    /\ gen.pc = "idle"
    /\ LET skip == IF start = -1 THEN 0 ELSE start
           has_limit == stop # -1
           limit == IF has_limit THEN stop - skip ELSE 0
       IN gen' = NewGen(c, "keys_slice", mongo_query(catalogs[c], <<>>),
                        skip, has_limit, limit)
    /\ out' = <<>>
    /\ out_ids' = <<>>
    /\ before' = run_start
    /\ changed' = FALSE
    /\ UNCHANGED <<storeVars, cursor_limit, instances, streamVars, run, blockVars, catalogs, last, mq>>

\* next() on the generator
Resume ==
    /\ gen.pc \in {"start", "yield"}
    /\ gen' = Resumed(gen)
    /\ IF gen'.pc = "yield"
       THEN /\ out' = Append(out, PopId(gen'.items[gen'.i]))
            /\ out_ids' = Append(out_ids, gen'.items[gen'.i]._id)
       ELSE UNCHANGED <<out, out_ids>>
    /\ UNCHANGED <<storeVars, cursor_limit, instances, streamVars, run, blockVars, catalogs, before, changed, last, mq>>

\* another process inserts a run_start document; the store assigns its _id
Insert(plan) ==
    /\ inserted < MaxInserts
    /\ Cardinality(run_start) < Len(Uids)
    /\ run_start' = run_start \cup {Doc(Cardinality(run_start) + 1, plan)}
    /\ inserted' = inserted + 1
    /\ changed' = (changed \/ gen.pc # "idle")
    /\ UNCHANGED <<cursor_limit, instances, streamVars, run, blockVars, catalogs, gen, out, out_ids, before, last, mq>>

\* Catalog.__getitem__(key)
\* keep: the caller holds on to the Run that is returned
GetItem(c, key, keep) ==
    /\ authenticated(catalogs[c])
    /\ LET query == mongo_query(catalogs[c], <<Pred("eq", "uid", {key})>>)
           run_start_doc == find_one(run_start, query)
       IN IF ~ValidQuery(query)
          THEN /\ last' = Call("getitem", c, key, "OperationFailure", 0, query.and)
               /\ UNCHANGED run
          ELSE IF run_start_doc = <<>>
          THEN /\ last' = Call("getitem", c, key, "KeyError", 0, query.and)
               /\ UNCHANGED run
          ELSE /\ last' = Issuing(Call("getitem", c, key, "Run",
                                       run_start_doc[1]._id, query.and),
                                  BuildRunQueries)
               /\ run' = IF keep
                         THEN build_run(run_stop, event_descriptor,
                                        PopId(run_start_doc[1]))
                         ELSE run
    /\ UNCHANGED <<storeVars, cursor_limit, instances, streamVars, blockVars, catalogs, genVars, mq>>

item_by_index_inclusive(c, index) ==
    LET query == mongo_query(c, <<>>) IN
    IF ~ValidQuery(query) THEN [status |-> "OperationFailure", doc |-> <<>>]
    ELSE IF index > count_documents(run_start, query)
    THEN [status |-> "IndexError", doc |-> <<>>]
    ELSE IF index < 0 THEN [status |-> "ValueError", doc |-> <<>>]
    ELSE LET g == Resumed(NewGen(0, "item_by_index", query, index, TRUE, 1)) IN
         IF g.pc = "yield"
         THEN [status |-> "ok", doc |-> <<PopId(g.items[g.i])>>]
         ELSE [status |-> "StopIteration", doc |-> <<>>]

\* Catalog._item_by_index(index) up to the run_start document it picks:
\* len(self), then one next() on _chunked_find(..., skip=index, limit=1);
\* the store refuses a negative skip
item_by_index(c, index) ==
    LET query == mongo_query(c, <<>>) IN
    IF ~ValidQuery(query) THEN [status |-> "OperationFailure", doc |-> <<>>]
    ELSE IF index >= count_documents(run_start, query)
    THEN [status |-> "IndexError", doc |-> <<>>]
    ELSE IF index < 0 THEN [status |-> "ValueError", doc |-> <<>>]
    ELSE LET g == Resumed(NewGen(0, "item_by_index", query, index, TRUE, 1)) IN
         IF g.pc = "yield"
         THEN [status |-> "ok", doc |-> <<PopId(g.items[g.i])>>]
         ELSE [status |-> "StopIteration", doc |-> <<>>]

\* Catalog._keys_indexer(index), _items_indexer(index), _values_indexer(index)
\* for an int index; which is "keys", "items" or "values". The outcome
\* records the index in n and the uid of the entry returned in key
Indexer(c, which, index, keep) ==
    /\ authenticated(catalogs[c])
    /\ LET r == item_by_index(catalogs[c], index)
           query == mongo_query(catalogs[c], <<>>)
       IN IF r.status = "ok"
          THEN /\ last' = Issuing(Call(which, c, r.doc[1].uid, "ok", index,
                                       query.and),
                                  BuildRunQueries)
               /\ run' = IF keep /\ which # "keys"
                         THEN build_run(run_stop, event_descriptor, r.doc[1])
                         ELSE run
          ELSE /\ last' = Call(which, c, None, r.status, index, query.and)
               /\ UNCHANGED run
    /\ UNCHANGED <<storeVars, cursor_limit, instances, streamVars, blockVars, catalogs, genVars, mq>>

\* LazyMap.keys() on the Run the caller holds (catalog_server.utils, source
\* not at hand): the keys, with no thunk called
lazy_keys(r) == DOMAIN r.mapping

\* list(run): the stream names of the Run the caller holds
StreamNames ==
    /\ run.held
    /\ last' = Call("stream_names", 0, None, "ok",
                    Cardinality(lazy_keys(run)), <<>>)
    /\ UNCHANGED <<storeVars, cursor_limit, instances, streamVars, run, blockVars, catalogs, genVars, mq>>

\* run[name] on the Run the caller holds: the LazyMap returns the stored
\* EventStream or calls the functools.partial of _build_event_stream. The
\* outcome records the stream name in key, the run uid in used and the
\* cutoff_seq_num local of _build_event_stream in n
GetStream(name) ==
    /\ run.held
    /\ name \in lazy_keys(run)
    /\ run.accesses[name] < MaxAccesses
    /\ LET uid == run.start[1].uid
           built == build_event_stream(event_descriptor, event, uid, name)
       IN /\ run' = lazy_getitem(run, name, built)
          /\ last' = IF run.mapping[name] # <<>>
                     THEN Call("stream", 0, name, "ok", 0, <<uid>>)
                     ELSE Issuing(Call("stream", 0, name, built.status,
                                       built.cutoff_seq_num, <<uid>>),
                                  BuildStreamQueries)
    /\ UNCHANGED <<storeVars, cursor_limit, instances, streamVars, blockVars, catalogs, genVars, mq>>

\* catalog._build_event_stream(run_start_uid=uid, stream_name=name,
\* is_complete=...) called directly
BuildEventStream(c, uid, name) ==
    /\ LET built == build_event_stream(event_descriptor, event, uid, name) IN
       last' = Issuing(Call("build_event_stream", c, name, built.status,
                            built.cutoff_seq_num, <<uid>>),
                       BuildStreamQueries)
    /\ UNCHANGED <<storeVars, cursor_limit, instances, streamVars, run, blockVars, catalogs, genVars, mq>>

\* the acquisition appends an Event document
InsertEvent(descriptor, seq_num) ==
    /\ Cardinality(event) < MaxEvents
    /\ EventDoc(descriptor, seq_num) \notin event
    /\ event' = event \cup {EventDoc(descriptor, seq_num)}
    /\ UNCHANGED <<storeVars, cursor_limit, instances, run_stop, event_descriptor, run, blockVars, catalogs, genVars, last, mq>>

\* _build_dataset(event_descriptors=event_descriptors, ...), as the "data"
\* entry of a stream calls it
BuildDataset(event_descriptors) ==
    /\ array.status = None
    /\ LET r == build_dataset(event_descriptors, chunks) IN
       /\ tasks' = r.tasks
       /\ array' = [status |-> r.status, value |-> r.value]
       /\ last' = Call("_build_dataset", 0, None, r.status, 0, <<event_descriptors>>)
    /\ UNCHANGED <<storeVars, cursor_limit, instances, streamVars, run, chunks, catalogs, genVars, mq>>

\* instances[k].new_variation(**given); the outcome records given in used.
\* The caller holds the constructed instance and what the last call returned
NewVariation(k, given) ==
    /\ LET r == new_variation(instances[k], given) IN
       IF r.status = "ok"
       THEN /\ instances' = <<instances[1], r.obj[1]>>
            /\ last' = Call("new_variation", k, None, "ok", 2, <<given>>)
       ELSE /\ last' = Call("new_variation", k, None, r.status, 0, <<given>>)
            /\ instances' = <<instances[1]>>
    /\ UNCHANGED <<storeVars, cursor_limit, streamVars, run, blockVars, catalogs, genVars, mq>>

\* Catalog.__len__()
LenCatalog(c) ==
    /\ authenticated(catalogs[c])
    /\ LET query == mongo_query(catalogs[c], <<>>) IN
       last' = IF ~ValidQuery(query)
               THEN Call("len", c, None, "OperationFailure", 0, query.and)
               ELSE Call("len", c, None, "ok",
                         count_documents(run_start, query), query.and)
    /\ UNCHANGED <<storeVars, cursor_limit, instances, streamVars, run, blockVars, catalogs, genVars, mq>>

\* Catalog.__length_hint__(): the query is handed to
\* estimated_document_count, which takes no filter; depending on the driver
\* the call raises TypeError or counts the whole collection
LengthHint(c) ==
    /\ LET query == mongo_query(catalogs[c], <<>>) IN
       \E status \in {"TypeError", "ok"} :
          last' = Call("length_hint", c, None, status,
                       IF status = "ok" THEN Cardinality(run_start) ELSE 0,
                       query.and)
    /\ UNCHANGED <<storeVars, cursor_limit, instances, streamVars, run, blockVars, catalogs, genVars, mq>>

\* Catalog.search(query)
Search(c, query) ==
    /\ Len(catalogs) < MaxCatalogs
    /\ authenticated(catalogs[c])
    /\ catalogs' = Append(catalogs, search(catalogs[c], query))
    /\ last' = Call("search", c, None, "ok", Len(catalogs) + 1, <<>>)
    /\ UNCHANGED <<storeVars, cursor_limit, instances, streamVars, run, blockVars, genVars, mq>>

already_authenticated_under_policy(c) ==
    c.identity # None /\ c.access_policy # None

\* Catalog.authenticated_as: if self.authenticated_identity is not None
already_authenticated(c) == c.identity # None

\* Catalog.authenticated_as(identity)
AuthenticatedAs(c, identity) ==
    /\ Len(catalogs) < MaxCatalogs
    /\ IF already_authenticated(catalogs[c])
       THEN /\ last' = Call("authenticated_as", c, identity, "RuntimeError", 0, <<>>)
            /\ UNCHANGED catalogs
       ELSE IF catalogs[c].access_policy # None
       THEN /\ last' = Call("authenticated_as", c, identity,
                            "NotImplementedError", 0, <<>>)
            /\ UNCHANGED catalogs
       ELSE /\ catalogs' = Append(catalogs, authenticated_as(catalogs[c], identity))
            /\ last' = Call("authenticated_as", c, identity, "ok",
                            Len(catalogs) + 1, <<>>)
    /\ UNCHANGED <<storeVars, cursor_limit, instances, streamVars, run, blockVars, genVars, mq>>

\* catalog.access_policy.filter_results(catalog, identity)
FilterResults(c, identity) ==
    /\ Len(catalogs) < MaxCatalogs
    /\ catalogs[c].access_policy # None
    /\ catalogs' = Append(catalogs, filter_results(catalogs[c], identity))
    /\ last' = Call("filter_results", c, identity, "ok", Len(catalogs) + 1, <<>>)
    /\ UNCHANGED <<storeVars, cursor_limit, instances, streamVars, run, blockVars, genVars, mq>>

\* policy.modify_queries(queries, identity) on a caller's list of intents
ModifyQueries(policy, queries, identity) ==
    /\ LET r == modify_queries(policy, queries, identity) IN
       mq' = [policy |-> policy, identity |-> identity, arg |-> queries,
              arg_after |-> r.arg_after, result |-> r.result]
    /\ UNCHANGED <<storeVars, cursor_limit, instances, streamVars, run, blockVars, catalogs, genVars, last>>

Stores ==
    UNION {{{Doc(k, f[k]) : k \in 1..n} : f \in [1..n -> Plans]} : n \in 0..MaxDocs}

PageQueries == {<<>>, <<RawMongo(Pred("eq", "plan", {"x"}))>>}

\* runs A, B, C under two assignments of plans
CatStores ==
    {{Doc(1, "x"), Doc(2, "y"), Doc(3, "x")},
     {Doc(1, "y"), Doc(2, "x"), Doc(3, "x")}}

\* runs A and B; A has two descriptors in stream "primary" and one in
\* "baseline", B has none
Descriptors ==
    {Descriptor("d1", "A", "primary"), Descriptor("d2", "A", "primary"),
     Descriptor("d3", "A", "baseline")}

NoStreams == run_stop = {} /\ event_descriptor = {} /\ event = {}
NoBlocks ==
    /\ chunks = <<>>
    /\ tasks = NoTasks
    /\ array = [status |-> None, value |-> None]

PageInit ==
    /\ NoStreams
    /\ run_start \in Stores
    /\ inserted = 0
    /\ cursor_limit \in 1..MaxCursorLimit
    /\ \E qs \in PageQueries : catalogs = <<Catalog(qs, None, None)>>
    /\ gen = IdleGen
    /\ out = <<>>
    /\ out_ids = <<>>
    /\ before = {}
    /\ changed = FALSE
    /\ last = NoCall
    /\ mq = NoMq
    /\ instances = <<>>
    /\ run = NoRun
    /\ NoBlocks

Starts == {-1} \cup 0..MaxStart
Stops == {-1} \cup 0..MaxStop

PageNext ==
    \/ Iter(1)
    \/ \E start \in Starts, stop \in Stops :
          /\ stop # -1 => stop >= (IF start = -1 THEN 0 ELSE start)
          /\ KeysSlice(1, start, stop)
    \/ Resume
    \/ \E plan \in Plans : Insert(plan)

PageSpec == PageInit /\ [][PageNext]_vars

\* the consumer keeps consuming: a suspended generator is resumed again.
\* Insert is enabled MaxInserts times at most, so finitely many documents
\* arrive during a pass
LivePageSpec == PageInit /\ [][PageNext]_vars /\ WF_vars(Resume)

(* ------------------- positional access by one index -------------------- *)
Indexers == {"keys", "items", "values"}

IndexInit ==
    /\ run_stop = {StopDoc("A")}
    /\ event_descriptor = Descriptors
    /\ event = {}
    /\ run_start \in Stores
    /\ inserted = 0
    /\ cursor_limit \in 1..MaxCursorLimit
    /\ \E qs \in PageQueries : catalogs = <<Catalog(qs, None, None)>>
    /\ gen = IdleGen
    /\ out = <<>>
    /\ out_ids = <<>>
    /\ before = {}
    /\ changed = FALSE
    /\ last = NoCall
    /\ mq = NoMq
    /\ instances = <<>>
    /\ run = NoRun
    /\ NoBlocks

IndexNext ==
    \/ \E which \in Indexers, index \in -1..MaxIndex, keep \in BOOLEAN :
          Indexer(1, which, index, keep)
    \/ LenCatalog(1)

IndexSpec == IndexInit /\ [][IndexNext]_vars

(* ----------------- a Run, its LazyMap and its streams ------------------ *)
StreamNamesAsked == {"primary", "baseline", "absent"}

RunInit ==
    /\ run_stop \in {{}, {StopDoc("A")}}
    /\ event_descriptor = Descriptors
    /\ event = {}
    /\ run_start = {Doc(1, "x"), Doc(2, "y")}
    /\ inserted = 0
    /\ cursor_limit = 1
    /\ catalogs = <<Catalog(<<>>, None, None)>>
    /\ gen = IdleGen
    /\ out = <<>>
    /\ out_ids = <<>>
    /\ before = {}
    /\ changed = FALSE
    /\ last = NoCall
    /\ mq = NoMq
    /\ instances = <<>>
    /\ run = NoRun
    /\ NoBlocks

RunNext ==
    \/ \E key \in {"A", "B", "C"} : GetItem(1, key, TRUE)
    \/ StreamNames
    \/ \E name \in StreamNamesAsked : GetStream(name)
    \/ \E uid \in {"A", "B"}, name \in StreamNamesAsked :
          BuildEventStream(1, uid, name)
    \/ \E d \in Descriptors, seq_num \in 1..MaxSeq : InsertEvent(d.uid, seq_num)

RunSpec == RunInit /\ [][RunNext]_vars

(* ------------------- the block table of a remote array ----------------- *)
\* the chunk tables: per axis, the lengths of its blocks
ChunkLens == {1, 2}
AxisChunks ==
    UNION {[1..n -> ChunkLens] : n \in 0..MaxChunksPerAxis}
ChunkTables ==
    {cs \in UNION {[1..n -> AxisChunks] : n \in 0..MaxAxes} :
        Len(product(cs)) <= MaxBlocks}

\* the lists of Event Descriptor documents of one stream name
DataKeySets == {{}, {"x"}, {"x", "y"}}
EventDescriptorLists ==
    UNION {[1..n -> {DataDescriptor(keys) : keys \in DataKeySets}] :
              n \in 0..MaxDataDescriptors}

BlockInit ==
    /\ NoStreams
    /\ run_start = {}
    /\ inserted = 0
    /\ cursor_limit = 1
    /\ catalogs = <<Catalog(<<>>, None, None)>>
    /\ gen = IdleGen
    /\ out = <<>>
    /\ out_ids = <<>>
    /\ before = {}
    /\ changed = FALSE
    /\ last = NoCall
    /\ mq = NoMq
    /\ instances = <<>>
    /\ run = NoRun
    /\ chunks \in ChunkTables
    /\ tasks = NoTasks
    /\ array = [status |-> None, value |-> None]

BlockNext ==
    \E event_descriptors \in EventDescriptorLists : BuildDataset(event_descriptors)

BlockSpec == BlockInit /\ [][BlockNext]_vars

(* --------------------- the clients and their variations ---------------- *)
ClientTypes == {"BaseClient", "BaseStructureClient"}
Items == {"item", NEEDS_INITIALIZATION}
Paths == {ListPath(<<>>), ListPath(<<"a">>), StrPath, NonePath}
Metadatas == {{}, {"m"}}
Params == {DictParams({}), DictParams({"p"}), NoneParams}
Structures == {None, "s"}
\* the values new_variation is called with
GivenPaths == {ListPath(<<"a">>), StrPath, NonePath}
GivenParams == {DictParams({"p"}), NoneParams}

\* the keyword arguments with the names in names
Kw(names, client, item, path, metadata, params, structure) ==
    [name \in names |->
        CASE name = "client" -> client
          [] name = "item" -> item
          [] name = "path" -> path
          [] name = "metadata" -> metadata
          [] name = "params" -> params
          [] name = "structure" -> structure]
\* the parameters new_variation of a type takes
Overridable(type) ==
    IF type = "BaseStructureClient"
    THEN {"metadata", "path", "params", "structure"}
    ELSE {"metadata", "path", "params"}

\* type("http", item=..., path=..., metadata=..., params=...[, structure=...]):
\* the outcomes of the constructor called the regular way
Constructed ==
    {new_instance(type, <<"http">>,
                  Kw({"item", "path", "metadata", "params"}
                       \cup (Overridable(type) \ {"metadata", "path", "params"}),
                     None, item, path, metadata, params, structure)) :
        type \in ClientTypes, item \in Items, path \in Paths,
        metadata \in Metadatas, params \in Params, structure \in Structures}

ClientInit ==
    /\ NoStreams
    /\ run_start = {}
    /\ inserted = 0
    /\ cursor_limit = 1
    /\ catalogs = <<Catalog(<<>>, None, None)>>
    /\ gen = IdleGen
    /\ out = <<>>
    /\ out_ids = <<>>
    /\ before = {}
    /\ changed = FALSE
    /\ last = NoCall
    /\ mq = NoMq
    /\ instances \in {<<r.obj[1]>> : r \in {c \in Constructed : c.status = "ok"}}
    /\ run = NoRun
    /\ NoBlocks

\* new_variation of the constructed instance, called with any of its own
\* parameters and, through **kwargs, with client or item
ClientNext ==
    \E k \in {1} :
       \E names \in SUBSET (Overridable(instances[k].type) \cup {"client", "item"}) :
          \E path \in IF "path" \in names THEN GivenPaths ELSE {StrPath},
             params \in IF "params" \in names THEN GivenParams ELSE {NoneParams} :
             NewVariation(k, Kw(names, "c2", "other", path, {"m"}, params, "s"))

ClientSpec == ClientInit /\ [][ClientNext]_vars

(* ------------- the Catalog operations on an unchanging store ----------- *)
SearchIntents ==
    {RawMongo(Pred("eq", "plan", {"x"})), FullText("y"), KeyLookup("A")}
Keys == {"A", "C"}
RootPolicies == {None, "Dummy", "Simple"}
RootIdentities == {None, "alice"}
BoundIdentities == {"alice", admin}

Init ==
    /\ run_stop = {StopDoc("A")}
    /\ event_descriptor = Descriptors
    /\ event = {}
    /\ run_start \in CatStores
    /\ inserted = 0
    /\ cursor_limit = 1
    /\ \E policy \in RootPolicies, identity \in RootIdentities :
          catalogs = <<Catalog(<<>>, policy, identity)>>
    /\ gen = IdleGen
    /\ out = <<>>
    /\ out_ids = <<>>
    /\ before = {}
    /\ changed = FALSE
    /\ last = NoCall
    /\ mq = NoMq
    /\ instances = <<>>
    /\ run = NoRun
    /\ NoBlocks

Next ==
    \/ \E c \in 1..Len(catalogs), query \in SearchIntents : Search(c, query)
    \/ \E c \in 1..Len(catalogs), identity \in BoundIdentities :
          AuthenticatedAs(c, identity)
    \/ \E c \in 1..Len(catalogs), identity \in BoundIdentities :
          FilterResults(c, identity)
    \/ \E c \in 1..Len(catalogs), key \in Keys : GetItem(c, key, FALSE)
    \/ \E c \in 1..Len(catalogs) : LenCatalog(c)
    \/ \E c \in 1..Len(catalogs) : LengthHint(c)
    \/ \E c \in 1..Len(catalogs) : Iter(c)
    \/ Resume

Spec == Init /\ [][Next]_vars

(* ------------- the Catalogs that search and rebinding make ------------- *)
BindNext ==
    \/ \E c \in 1..Len(catalogs), query \in SearchIntents : Search(c, query)
    \/ \E c \in 1..Len(catalogs), identity \in BoundIdentities :
          AuthenticatedAs(c, identity)
    \/ \E c \in 1..Len(catalogs), identity \in BoundIdentities :
          FilterResults(c, identity)

BindSpec == Init /\ [][BindNext]_vars

(* ------------------- modify_queries as a pure function ----------------- *)
IntentLists ==
    {<<>>} \cup {<<q>> : q \in SearchIntents}
           \cup {<<q, r>> : q \in SearchIntents, r \in SearchIntents}

PolicyInit ==
    /\ NoStreams
    /\ run_start = {}
    /\ inserted = 0
    /\ cursor_limit = 1
    /\ catalogs = <<Catalog(<<>>, "Simple", None)>>
    /\ gen = IdleGen
    /\ out = <<>>
    /\ out_ids = <<>>
    /\ before = {}
    /\ changed = FALSE
    /\ last = NoCall
    /\ mq = NoMq
    /\ instances = <<>>
    /\ run = NoRun
    /\ NoBlocks

PolicyNext ==
    \E policy \in {"Dummy", "Simple"}, queries \in IntentLists,
       identity \in Identities \cup {None} :
        ModifyQueries(policy, queries, identity)

PolicySpec == PolicyInit /\ [][PolicyNext]_vars

(* ------------------------- pagination claims --------------------------- *)
\* the documents of coll that satisfy every stored translated query of c
Visible(coll, c) == {d \in coll : \A k \in 1..Len(c.mongo_queries) :
                                     MatchPred(c.mongo_queries[k], d)}
\* the document at 0-based position k of S ordered by _id
AtPosition(S, k) == {d \in S : Cardinality({e \in S : e._id < d._id}) = k}
Ascending(ids) == \A a, b \in 1..Len(ids) : a < b => ids[a] < ids[b]
IdsOf(ids) == {ids[k] : k \in 1..Len(ids)}
FullPass == gen.arg_skip = 0 /\ ~gen.has_limit
Min(a, b) == IF a < b THEN a ELSE b
Max(a, b) == IF a > b THEN a ELSE b

\* C1: on a store that does not change during the pass, a pass without skip
\* and without overall limit that has ended has yielded exactly the matching
\* documents, each once, in ascending _id order, with _id stripped.
C1_PaginationComplete ==
    (gen.pc = "done" /\ ~changed /\ FullPass) =>
        LET M == Visible(before, catalogs[gen.cat]) IN
        /\ Len(out) = Cardinality(M)
        /\ Ascending(out_ids)
        /\ \A k \in 1..Len(out) :
              \E d \in M : d._id = out_ids[k] /\ out[k] = PopId(d)
        /\ \A d \in M : d._id \in IdsOf(out_ids)
\* a pass of at least three rounds over at least three matching documents
C1_Witness ==
    /\ gen.pc = "done" /\ ~changed /\ FullPass
    /\ gen.round >= 3
    /\ Len(out) >= 3
    /\ Len(out) < Cardinality(before)

\* C2: with documents inserted at any point of a pass, the ids yielded so
\* far are strictly ascending (so no document is yielded twice and none at
\* or below the last id seen), the filter of the next round excludes every
\* id at or below the last id fetched, and a full pass that has ended has
\* yielded every matching document that existed when it started.
C2_InsertsDuringPass ==
    /\ Ascending(out_ids)
    /\ (gen.pc = "yield") =>
          /\ gen.query.has_id
          /\ gen.query.gt = gen.items[Len(gen.items)]._id
          /\ \A k \in 1..Len(out_ids) : out_ids[k] <= gen.query.gt
    /\ (gen.pc = "done" /\ FullPass) =>
          \A d \in Visible(before, catalogs[gen.cat]) : d._id \in IdsOf(out_ids)
\* a pass that ended after yielding a document inserted while it ran
C2_Witness ==
    /\ gen.pc = "done" /\ changed /\ FullPass
    /\ gen.round >= 3
    /\ \E k \in 1..Len(out_ids) : \A d \in before : d._id # out_ids[k]

\* C4: on an unchanging store a keys slice with stop > start (or no stop)
\* that has ended has yielded the uids at positions start..stop-1 of the
\* matching documents ordered by _id; the first round is the only one with
\* a store-level skip, every later round filters _id > last id, no skip.
C4_PositionalSlice ==
    LET ranged == gen.op = "keys_slice" /\ (gen.has_limit => gen.limit > 0)
        M == Visible(before, catalogs[gen.cat])
        avail == Max(Cardinality(M) - gen.arg_skip, 0)
    IN
    /\ (ranged /\ gen.round = 1) => gen.skip = gen.arg_skip
    /\ (ranged /\ gen.round >= 2) =>
          /\ gen.skip = 0
          /\ gen.query.has_id
          /\ Len(out_ids) >= gen.fetched - Len(gen.items)
          /\ gen.query.gt >= out_ids[gen.fetched - Len(gen.items)]
    /\ (ranged /\ gen.pc = "done" /\ ~changed) =>
          /\ Len(out) = IF gen.has_limit THEN Min(gen.limit, avail) ELSE avail
          /\ \A k \in 1..Len(out) :
                \E d \in AtPosition(M, gen.arg_skip + k - 1) : out[k].uid = d.uid
\* a slice with a positive start and a stop that took more than one round
C4_Witness ==
    /\ gen.op = "keys_slice" /\ gen.pc = "done" /\ ~changed
    /\ gen.arg_skip > 0 /\ gen.has_limit /\ gen.limit > 0
    /\ gen.round >= 2
    /\ Len(out) = gen.limit
    /\ Len(out) >= 2

(* --------------------------- Catalog claims ---------------------------- *)
Translate(queries) == [k \in 1..Len(queries) |-> query_registry(queries[k])]
OutUids == {out[k].uid : k \in 1..Len(out)}

\* C3: for every Catalog, whatever intents it holds, on an unchanging store
\* length() returns the number of uids a drained iterate() of the same
\* Catalog yields.
C3_LenEqualsDrain ==
    (gen.op = "iter" /\ gen.pc \in {"done", "error"} /\ ~changed
       /\ last.op = "len" /\ last.cat = gen.cat) =>
        /\ gen.pc = "done"
        /\ last.status = "ok"
        /\ last.n = Len(out)

\* an identity the SimpleAccessPolicy restricts to a set of uids
Restricted(c) ==
    /\ c.access_policy = "Simple"
    /\ c.identity \notin {None, admin}
    /\ ~Allowed(c.identity).all

\* C5: under a SimpleAccessPolicy and a restricted identity with allowed
\* set S, lookup of a uid outside S raises KeyError, and iterate and
\* length expose no run outside S.
C5_AllowListConfinement ==
    /\ (last.op = "getitem" /\ Restricted(catalogs[last.cat])
          /\ last.key \notin Allowed(catalogs[last.cat].identity).uids) =>
            last.status = "KeyError"
    /\ (gen.pc # "idle" /\ Restricted(catalogs[gen.cat])) =>
            OutUids \subseteq Allowed(catalogs[gen.cat].identity).uids
    /\ (last.op = "len" /\ last.status = "ok" /\ Restricted(catalogs[last.cat])) =>
            last.n <= Cardinality(Allowed(catalogs[last.cat].identity).uids)

\* the translated intents a read of Catalog c is to use
Effective(c) ==
    Translate(modify_queries(c.access_policy, c.queries, c.identity).result)

\* C6: every read of a Catalog with an access policy hands the store the
\* translation of modify_queries(stored intents, current identity).
C6_ReadsUseModifiedQueries ==
    /\ (last.op \in {"len", "length_hint"}
          /\ catalogs[last.cat].access_policy # None) =>
            last.used = Effective(catalogs[last.cat])
    /\ (last.op = "getitem" /\ catalogs[last.cat].access_policy # None) =>
            last.used = Append(Effective(catalogs[last.cat]),
                               Pred("eq", "uid", {last.key}))
    /\ (gen.pc # "idle" /\ catalogs[gen.cat].access_policy # None) =>
            gen.query.and = Effective(catalogs[gen.cat])

\* the restriction a SimpleAccessPolicy appends for a set of uids
Restriction(uids) ==
    [tag |-> "RawMongo", op |-> "$in", field |-> "uid", vals |-> uids]
AllowedSet(identity) ==
    IF identity \in DOMAIN access_lists THEN access_lists[identity].uids ELSE {}

\* C7 as stated: SimpleAccessPolicy.modify_queries returns the intents
\* unchanged if and only if the identity is the administrative one, and
\* otherwise the intents followed by one restriction to the allowed set.
C7_AdminOnlyUnchanged ==
    (mq.policy = "Simple") =>
        /\ (mq.identity = admin) <=> (mq.result = mq.arg)
        /\ (mq.identity # admin) =>
              mq.result = Append(mq.arg, Restriction(AllowedSet(mq.identity)))
        /\ mq.arg_after = mq.arg

Unrestricted(identity) ==
    \/ identity = admin
    \/ identity \in DOMAIN access_lists /\ access_lists[identity] = ALL

\* C7 amended: SimpleAccessPolicy.modify_queries returns the intents
\* unchanged if and only if the identity is the administrative one or its
\* access list is the ALL sentinel; for every other identity the result is
\* the input followed by exactly one restriction of uid to the identity's
\* allowed set (empty for an unknown identity); the input is not mutated.
C7_ModifyQueries ==
    (mq.policy = "Simple") =>
        /\ Unrestricted(mq.identity) <=> (mq.result = mq.arg)
        /\ ~Unrestricted(mq.identity) =>
              mq.result = Append(mq.arg, Restriction(AllowedSet(mq.identity)))
        /\ mq.arg_after = mq.arg
\* an unknown identity and a list of two intents: the empty restriction
C7_Witness ==
    /\ mq.policy = "Simple"
    /\ mq.identity = "dave"
    /\ Len(mq.arg) = 2
    /\ Len(mq.result) = 3
    /\ mq.result[3].vals = {}

\* C8: search returns a new Catalog with self's intents followed by the
\* new one and the same handles, policy and identity; no step of any
\* operation, a pass in progress included, changes an existing Catalog.
C8_SearchFrame ==
    [][/\ Len(catalogs') >= Len(catalogs)
       /\ \A k \in 1..Len(catalogs) : catalogs'[k] = catalogs[k]
       /\ (last'.op = "search" /\ Len(catalogs') = Len(catalogs) + 1) =>
            LET self == catalogs[last'.cat]
                new == catalogs'[Len(catalogs')]
            IN /\ last'.n = Len(catalogs')
               /\ \E query \in SearchIntents :
                     /\ new.queries = self.queries \o <<query>>
                     /\ new.mongo_queries =
                          self.mongo_queries \o <<query_registry(query)>>
               /\ new.access_policy = self.access_policy
               /\ new.identity = self.identity
               /\ new.metadatastore_db = self.metadatastore_db
               /\ new.asset_registry_db = self.asset_registry_db]_vars
\* a search on a Catalog with one intent, while a pass over it is in its
\* second round
C8_Witness ==
    /\ last.op = "search"
    /\ gen.pc = "yield" /\ gen.round >= 2 /\ gen.cat = last.cat
    /\ Len(catalogs[last.cat].queries) = 1
    /\ Len(catalogs[last.n].queries) = 2
    /\ Len(gen.query.and) = 1

\* what an intent asks for
IntentMatches(q, d) ==
    CASE q.tag = "RawMongo" -> MatchPred(Pred(q.op, q.field, q.vals), d)
      [] q.tag = "FullText" -> d.plan \in q.vals
      [] q.tag = "KeyLookup" -> d.uid \in q.vals
Wanted(c) == {d \in run_start : \A k \in 1..Len(c.queries) :
                                    IntentMatches(c.queries[k], d)}

\* C9: the runs a Catalog without access policy shows by iterate, length
\* and lookup are exactly the runs that match every one of its intents.
C9_IntentsCombineByAnd ==
    /\ (gen.op = "iter" /\ gen.pc \in {"done", "error"}
          /\ catalogs[gen.cat].access_policy = None) =>
            /\ gen.pc = "done"
            /\ OutUids = {d.uid : d \in Wanted(catalogs[gen.cat])}
    /\ (last.op = "len" /\ catalogs[last.cat].access_policy = None) =>
            /\ last.status = "ok"
            /\ last.n = Cardinality(Wanted(catalogs[last.cat]))
    /\ (last.op = "getitem" /\ catalogs[last.cat].access_policy = None) =>
            IF last.key \in {d.uid : d \in Wanted(catalogs[last.cat])}
            THEN last.status = "Run"
            ELSE last.status = "KeyError"

\* C10: authenticated_as(identity) on a Catalog whose identity is None
\* returns a new Catalog bound to identity and leaves the original unbound.
C10_RebindBindsIdentity ==
    (last.op = "authenticated_as" /\ catalogs[last.cat].identity = None) =>
        /\ last.status = "ok"
        /\ catalogs[last.n].identity = last.key
        /\ catalogs[last.cat].identity = None

\* C11: authenticated_as on a Catalog whose identity is not None raises
\* RuntimeError and creates no Catalog; search hands the identity and the
\* access policy on to the Catalog it returns, so this holds for every
\* Catalog derived by searches from a bound one.
C11_RebindOnBoundFails ==
    [][/\ (/\ last'.op = "authenticated_as"
           /\ (last' # last \/ catalogs' # catalogs)
           /\ catalogs[last'.cat].identity # None) =>
              /\ last'.status = "RuntimeError"
              /\ catalogs' = catalogs
       /\ (last'.op = "search" /\ catalogs' # catalogs) =>
              /\ catalogs'[last'.n].identity = catalogs[last'.cat].identity
              /\ catalogs'[last'.n].access_policy =
                    catalogs[last'.cat].access_policy]_vars
\* a refused rebind on a bound Catalog that a search returned
C11_Witness ==
    /\ last.op = "authenticated_as"
    /\ last.status = "RuntimeError"
    /\ catalogs[last.cat].identity # None
    /\ catalogs[last.cat].queries # <<>>

\* C12: on an unchanging store, lookup of a uid returns a Run exactly when
\* a drained iterate() of the same Catalog yields that uid; otherwise it
\* raises KeyError and has issued no stop-document or stream-name query.
C12_LookupConfinedToResults ==
    (/\ last.op = "getitem"
     /\ gen.op = "iter" /\ gen.cat = last.cat
     /\ gen.pc \in {"done", "error"}) =>
        /\ (last.status = "Run") <=> (last.key \in OutUids)
        /\ last.status # "Run" =>
              (last.status = "KeyError" /\ last.issued = {})
        /\ last.status = "Run" => last.issued = BuildRunQueries

\* C13: on an unchanging store, the keys, items and values indexers with
\* an index i, 0 <= i < len(catalog), return the entry at position i of the
\* matching documents in _id order; with i >= len(catalog) they raise
\* IndexError, return nothing and build no Run.
C13_SingleIndex ==
    (last.op \in Indexers /\ last.n >= 0) =>
        LET c == catalogs[last.cat]
            length == count_documents(run_start, mongo_query(c, <<>>))
        IN IF last.n < length
           THEN /\ last.status = "ok"
                /\ {last.key} = {d.uid : d \in AtPosition(Visible(run_start, c), last.n)}
                /\ (run.held /\ last.op # "keys") =>
                      \E d \in run_start : d.uid = run.start[1].uid
           ELSE /\ last.status = "IndexError"
                /\ last.key = None
                /\ last.issued = {}
\* the last entry of a filtered Catalog of at least two entries, fetched
\* past documents that the filter leaves out, and an index past the end
C13_Witness ==
    /\ last.op \in Indexers /\ last.status = "ok"
    /\ last.n >= 1
    /\ last.n = Cardinality(Visible(run_start, catalogs[1])) - 1
    /\ Cardinality(run_start) > Cardinality(Visible(run_start, catalogs[1]))

\* the descriptors of stream name of run uid
DescriptorsOf(uid, name) ==
    {d \in event_descriptor : d.run_start = uid /\ d.name = name}
\* the events that reference one of the descriptors in descs
EventsOf(descs) == {e \in event : e.descriptor \in {d.uid : d \in descs}}
IsValueError(status) ==
    status \in {"ValueError: At least one Event Descriptor document is required.",
                "ValueError: not enough values to unpack"}
Constructing(call) ==
    call.op = "build_event_stream" \/ (call.op = "stream" /\ call.issued # {})

\* C14: the construction of the EventStream of (uid, stream_name) raises
\* ValueError when the pair has no descriptor and succeeds when it has at
\* least one, whatever the number of events that reference them.
C14_EmptyStreamIffNoDescriptor ==
    Constructing(last) =>
        IF DescriptorsOf(last.used[1], last.key) = {}
        THEN IsValueError(last.status)
        ELSE last.status = "ok"

\* C15: a constructed EventStream carries cutoff_seq_num, the largest
\* seq_num of the events that reference its descriptors when it is
\* constructed, and the value stays as events are appended.
C15_CutoffIsMaxSeqNum ==
    [][\A name \in DOMAIN run'.mapping :
          run'.mapping[name] # <<>> =>
             LET stream == run'.mapping[name][1] IN
             /\ "cutoff_seq_num" \in DOMAIN stream.metadata
             /\ IF name \in DOMAIN run.mapping /\ run.mapping[name] # <<>>
                THEN stream.metadata.cutoff_seq_num =
                        run.mapping[name][1].metadata.cutoff_seq_num
                ELSE stream.metadata.cutoff_seq_num =
                        MaxOf({e.seq_num :
                                 e \in EventsOf(stream.metadata.descriptors)})]_vars

\* C16: building a Run constructs no EventStream and issues no descriptor
\* find or event aggregate; listing the stream names evaluates nothing; the
\* EventStream of a name is constructed on the first access to the name
\* and only once, later accesses returning the stored value.
C16_LazyMemoized ==
    /\ last.op \in {"getitem"} \cup Indexers =>
          last.issued \cap BuildStreamQueries = {}
    /\ last.op = "stream_names" => last.issued = {}
    /\ \A name \in DOMAIN run.mapping :
          /\ run.constructions[name] <= 1
          /\ run.accesses[name] = 0 => run.mapping[name] = <<>>
          /\ run.accesses[name] >= 1 =>
                (run.mapping[name] # <<>> /\ run.constructions[name] = 1)
    /\ (last.op = "stream" /\ last.issued = {}) =>
          run.accesses[last.key] >= 2

\* the block index tuples of a chunk table: one index per axis, each below
\* the number of blocks of its axis
BlockIndexes(cs) ==
    {b \in [1..Len(cs) -> UNION {0..(Len(cs[dim]) - 1) : dim \in 1..Len(cs)}] :
        \A dim \in 1..Len(cs) : b[dim] < Len(cs[dim])}
RECURSIVE NumBlocks(_)
NumBlocks(cs) == IF cs = <<>> THEN 1 ELSE Len(Head(cs)) * NumBlocks(Tail(cs))
\* C17: for every chunk table, building the array of a data key gives a task
\* table that holds one fetch task for each block index tuple of the
\* Cartesian product of the per-axis block index ranges, their number being
\* the product of the per-axis block counts, and the task of block
\* (i_0, ..., i_n) is given the shape (chunks[0][i_0], ..., chunks[n][i_n]).
C17_BlockTable ==
    (/\ last.op = "_build_dataset"
     /\ last.used[1] # <<>>
     /\ last.used[1][1].data_keys # {}) =>
        /\ array.status = "ok"
        /\ DOMAIN tasks = BlockIndexes(chunks)
        /\ Cardinality(DOMAIN tasks) = NumBlocks(chunks)
        /\ \A b \in DOMAIN tasks :
              /\ tasks[b].fn = "_get_block"
              /\ tasks[b].block = b
              /\ Len(tasks[b].shape) = Len(chunks)
              /\ \A dim \in 1..Len(chunks) :
                    tasks[b].shape[dim] = chunks[dim][b[dim] + 1]

\* C19: during a pass, the documents fetched and not yet yielded number at
\* most CURSOR_LIMIT, so that a consumer that stops leaves at most one
\* batch unconsumed.
C19_BoundedLookAhead ==
    gen.pc \in {"yield", "done"} =>
        /\ gen.fetched - Len(out) <= cursor_limit
        /\ Len(gen.items) <= cursor_limit

\* C20: a pass with overall limit L >= 0 requests in each round at most
\* min(CURSOR_LIMIT, L - tally) documents, yields at most L documents, and
\* ends once L documents have been yielded.
C20_OverallLimit ==
    (gen.has_limit /\ gen.limit >= 0 /\ gen.pc \in {"yield", "done"}) =>
        /\ Len(out) <= gen.limit
        /\ gen.round >= 1 =>
              gen.cur_limit <= Min(cursor_limit, gen.limit - gen.tally)
        /\ (gen.pc = "yield" /\ Len(out) = gen.limit) =>
              Resumed(gen).pc = "done"

\* every document of the current round has been yielded
RoundYielded == gen.pc = "yield" /\ gen.i = Len(gen.items)
\* the pass has yielded as many documents as its overall limit
LimitReached == gen.has_limit /\ gen.limit >= 0 /\ Len(out) = gen.limit

\* C21: a pass whose consumer keeps consuming ends at the first round that
\* returns no document, or when the overall limit is reached, and at no
\* other point; with finitely many inserts during the pass it ends after
\* finitely many rounds.
C21_Termination ==
    /\ [](gen.pc = "done" => (gen.items = <<>> \/ LimitReached))
    /\ [](gen.pc = "yield" => gen.items # <<>>)
    /\ []((LimitReached /\ (gen.pc = "start" \/ RoundYielded)) =>
              Resumed(gen).pc = "done")
    /\ (gen.pc \in {"start", "yield"}) ~> (gen.pc \in {"done", "error"})

\* C22: filter_results(catalog, identity) of either policy returns a new
\* Catalog bound to identity that keeps the intents of catalog, so that it
\* shows a subset of the runs catalog shows; catalog itself is unchanged.
C22_FilterResultsKeepsIntents ==
    [][(last'.op = "filter_results" /\ catalogs' # catalogs) =>
          LET input == catalogs[last'.cat]
              new == catalogs'[last'.n]
          IN /\ new.identity = last'.key
             /\ new.access_policy = input.access_policy
             /\ new.queries = input.queries
             /\ new.mongo_queries = input.mongo_queries
             /\ Visible(run_start, new) \subseteq Visible(run_start, input)
             /\ catalogs'[last'.cat] = input]_vars

\* C23: new_variation, with none or some of metadata, path, params and
\* structure given, returns a new instance of the type of self with the
\* client and item of self, the values given, and the values of self for
\* what is not given; self is left as it was.
C23_NewVariationKeepsFields ==
    [][(last'.op = "new_variation" /\ (last' # last \/ instances' # instances)) =>
          LET self == instances[last'.cat]
              given == last'.used[1]
          IN (/\ DOMAIN given \subseteq {"metadata", "path", "params", "structure"}
              /\ \A name \in DOMAIN given \cap {"path"} : given[name].kind # "str") =>
             /\ last'.status = "ok"
             /\ Len(instances') = 2
             /\ instances'[last'.cat] = self
             /\ LET new == instances'[last'.n] IN
                /\ new.type = self.type
                /\ new.client = self.client
                /\ new.item = self.item
                /\ new.metadata = IF "metadata" \in DOMAIN given
                                  THEN given["metadata"] ELSE self.metadata
                /\ new.path = IF "path" \in DOMAIN given
                              THEN given["path"].segments ELSE self.path
                /\ new.params = IF "params" \in DOMAIN given
                                THEN given["params"].keys ELSE self.params
                /\ self.type = "BaseStructureClient" =>
                      new.structure = IF "structure" \in DOMAIN given
                                      THEN given["structure"] ELSE self.structure]_vars
====
